---------------------------- MODULE Spec2Model ----------------------------
(***************************************************************************)
(* wgpu-hartree-fock-2d: the BufferInfo<NUM_T, T> device/staging buffer    *)
(* pair (src/src/buff_utils.rs) and the three-stage dispatch sequence of   *)
(* run() (src/src/lib.rs).                                                 *)
(*                                                                         *)
(* The host program is modelled statement by statement: `stack` is the     *)
(* call stack, every frame holds the function it runs and the index of its *)
(* next statement in that function's statement list (NewCode, ...).  The   *)
(* device runs beside the host: it executes the commands of the submitted  *)
(* command buffers in order and delivers the map_async callbacks.          *)
(*                                                                         *)
(* Two specifications:                                                     *)
(*   Spec      the program: run() of lib.rs, from main();                  *)
(*   SpecPair  the BufferInfo API under an arbitrary single-threaded       *)
(*             caller, with arbitrary usage flags and data.                *)
(***************************************************************************)
EXTENDS Naturals, Sequences, FiniteSets, TLC

VARIABLES
    stack,      \* host call stack, the running frame last
    pairs,      \* the BufferInfo values constructed so far, by name
    context,    \* what WgpuContext::new has built: layout, bind group, pipelines
    buf,        \* the wgpu buffers created so far, by buffer id
    encoder,    \* the live CommandEncoder: [live, cmds]
    queue,      \* submitted command buffers the device has not finished
    mapreq,     \* map_async requests whose callback has not run yet
    chan,       \* the flume::bounded(1) channel of the running method
    ret,        \* the value the last finished call returned
    panic,      \* "none", or the message the process died with
    written,    \* buffers fully written by create_buffer_init, a copy or a kernel
    executed,   \* kernels the device has finished, in order
    submits,    \* number of queue.submit calls made
    out         \* what run() printed

vars == <<stack, pairs, context, buf, encoder, queue, mapreq, chan, ret, panic,
          written, executed, submits, out>>

hostVars == <<stack, ret, panic, out>>
wgpuVars == <<buf, encoder, queue, mapreq, written, executed, submits>>

-----------------------------------------------------------------------------
(* Bounds of the model *)

\* largest element count NUM_T of a pair in SpecPair
MaxN == 2
\* sizes of the element type T tried in SpecPair, in bytes
ElemSizes == {4, 8}
\* byte values written in SpecPair
ByteVals == {0, 1}

-----------------------------------------------------------------------------
(* wgpu::BufferUsages *)

STORAGE   == "STORAGE"
UNIFORM   == "UNIFORM"
COPY_SRC  == "COPY_SRC"
COPY_DST  == "COPY_DST"
MAP_READ  == "MAP_READ"
MAP_WRITE == "MAP_WRITE"
VERTEX    == "VERTEX"

\* bitflags `a.contains(b)`: every flag of b is set in a
contains(a, b) == b \subseteq a

\* the usage arguments tried in SpecPair: the two intended ones, both at once,
\* each with further flags, and sets naming neither
UsageInputs ==
    { {STORAGE}, {UNIFORM}, {STORAGE, UNIFORM},
      {STORAGE, COPY_SRC}, {UNIFORM, MAP_WRITE},
      {}, {COPY_DST}, {VERTEX, MAP_READ} }

-----------------------------------------------------------------------------
(* BufferInfo::new: the usages derived from the `usage` argument *)

\* buff_utils.rs:25,28: the branches that do not panic
UsageAccepted(usage) ==
    contains(usage, {STORAGE}) \/ contains(usage, {UNIFORM})

\* buff_utils.rs:26,29: shader_buf_usage
ShaderBufUsage(usage) ==
    IF contains(usage, {STORAGE}) THEN {STORAGE, COPY_SRC}
    ELSE {UNIFORM, COPY_DST}

\* faulty variant: the storage branch asks for a write mapping
StagingBufUsageWriteMap(usage) ==
    IF contains(usage, {STORAGE}) THEN {COPY_DST, MAP_WRITE}
    ELSE {COPY_SRC, MAP_WRITE}

\* buff_utils.rs:27,30: staging_buf_usage
StagingBufUsage(usage) ==
    IF contains(usage, {STORAGE}) THEN {COPY_DST, MAP_READ}
    ELSE {COPY_SRC, MAP_WRITE}

\* buffer ids: the two buffers a BufferInfo named p owns
ShaderBuffer(p)  == <<p, "shader_buffer">>
StagingBuffer(p) == <<p, "staging_buffer">>

\* buff_utils.rs:35 and 90,117: NUM_T * size_of::<T>()
BuffSize(numT, sizeT) == numT * sizeT

\* a wgpu buffer right after create_buffer (mapped_at_creation: false): wgpu
\* zero-initialises it; the all-zero content is written as the empty sequence
CreatedBuffer(size, usage) ==
    [size |-> size, usage |-> usage, bytes |-> <<>>, map |-> "unmapped"]

-----------------------------------------------------------------------------
(* The host's call stack *)

EmptyVec == [len |-> 0, bytes |-> <<>>]

NoRet == [tag |-> "none", vec |-> EmptyVec]
RetOk == [tag |-> "Ok", vec |-> EmptyVec]
RetErr == [tag |-> "Err", vec |-> EmptyVec]
RetVec(v) == [tag |-> "Ok", vec |-> v]

\* a frame: the function, its next statement, its arguments and locals;
\* `rets` keeps what the calls this frame made returned, in order
Frame(fn, self) ==
    [fn |-> fn, at |-> 1, self |-> self, usage |-> {}, binding |-> 0,
     numT |-> 0, sizeT |-> 0, data |-> EmptyVec, local_buffer |-> EmptyVec,
     rets |-> <<>>]

Top == stack[Len(stack)]

\* the running frame is in function fn, about to run statement `label` of `code`
Stmt(fn, code, label) ==
    /\ panic = "none"
    /\ stack # <<>>
    /\ Top.fn = fn
    /\ Top.at <= Len(code)
    /\ code[Top.at] = label

\* go on to the next statement of the running function
Advance == stack' = [stack EXCEPT ![Len(stack)].at = @ + 1]

\* call: push the callee's frame; the caller stays at the call statement
Call(frame) == stack' = Append(stack, frame)

\* return v: pop the frame, hand v to the caller and move it past the call
Return(v) ==
    /\ stack' = [i \in 1..(Len(stack) - 1) |->
                   IF i = Len(stack) - 1
                   THEN [stack[i] EXCEPT !.at = @ + 1, !.rets = Append(@, v)]
                   ELSE stack[i]]
    /\ ret' = v

NoChan == [live |-> FALSE, slot |-> <<>>]

NoContext ==
    [adapter |-> FALSE, device |-> FALSE, shader |-> FALSE,
     bind_group_layout |-> <<>>, bind_group |-> <<>>, pipeline_layout |-> <<>>,
     pipelines |-> {}]

-----------------------------------------------------------------------------
(* BufferInfo::new, buff_utils.rs:12-58 *)

\* faulty variant: the shader buffer is created before the usage is looked at
NewCodeAllocFirst == <<"shader_buffer", "usage", "staging_buffer", "Self">>

\* the statements of BufferInfo::new in program order
NewCode == <<"usage", "shader_buffer", "staging_buffer", "Self">>

\* lines 23-33: derive the two usages, or panic
new_usage ==
    /\ Stmt("new", NewCode, "usage")
    /\ IF UsageAccepted(Top.usage)
       THEN Advance /\ UNCHANGED panic
       ELSE panic' = "Invalid buffer usage" /\ UNCHANGED stack
    /\ UNCHANGED <<context, pairs, ret, out, chan>>
    /\ UNCHANGED wgpuVars

\* lines 36-41: device.create_buffer for the shader buffer
new_shader_buffer ==
    /\ Stmt("new", NewCode, "shader_buffer")
    /\ buf' = buf @@ (ShaderBuffer(Top.self) :>
                CreatedBuffer(BuffSize(Top.numT, Top.sizeT), ShaderBufUsage(Top.usage)))
    /\ Advance
    /\ UNCHANGED <<context, pairs, ret, panic, out, chan>>
    /\ UNCHANGED <<encoder, queue, mapreq, written, executed, submits>>

\* lines 43-48: device.create_buffer for the staging buffer
new_staging_buffer ==
    /\ Stmt("new", NewCode, "staging_buffer")
    /\ buf' = buf @@ (StagingBuffer(Top.self) :>
                CreatedBuffer(BuffSize(Top.numT, Top.sizeT), StagingBufUsage(Top.usage)))
    /\ Advance
    /\ UNCHANGED <<context, pairs, ret, panic, out, chan>>
    /\ UNCHANGED <<encoder, queue, mapreq, written, executed, submits>>

\* lines 49-57: the struct returned; `usage` is stored as given
new_Self ==
    /\ Stmt("new", NewCode, "Self")
    /\ pairs' = pairs @@ (Top.self :>
                [usage |-> Top.usage, binding |-> Top.binding,
                 numT |-> Top.numT, sizeT |-> Top.sizeT])
    /\ Return(RetOk)
    /\ UNCHANGED <<context, panic, out, chan>>
    /\ UNCHANGED wgpuVars

BufferInfo_new == new_usage \/ new_shader_buffer \/ new_staging_buffer \/ new_Self

\* a call BufferInfo::<numT, T>::new(&device, label, binding, usage) building pair p
NewFrame(p, binding, usage, numT, sizeT) ==
    [Frame("new", p) EXCEPT !.usage = usage, !.binding = binding,
                            !.numT = numT, !.sizeT = sizeT]

-----------------------------------------------------------------------------
(* wgpu as the two files use it: command encoder, queue, mapping            *)

\* buffers named by a recorded command
CmdBuffers(c) == IF c.op = "copy" THEN {c.src, c.dst} ELSE {}

\* every buffer a submitted, unfinished command buffer still uses
InFlight ==
    UNION { UNION { CmdBuffers(queue[i][j]) : j \in 1..Len(queue[i]) } : i \in 1..Len(queue) }

\* the BufferUsages flag a MapMode needs
MapFlag(mode) == IF mode = "Read" THEN MAP_READ ELSE MAP_WRITE

\* buffer_slice.map_async(mode, callback) on buffer b: wgpu accepts the request
\* only for an unmapped buffer created with the mode's flag; a refused request
\* still runs the callback, with an error
MapAsync(b, mode) ==
    LET valid == buf[b].map = "unmapped" /\ MapFlag(mode) \in buf[b].usage IN
    /\ mapreq' = mapreq \cup {[b |-> b, mode |-> mode, refused |-> ~valid]}
    /\ buf' = IF valid THEN [buf EXCEPT ![b].map = "pending"] ELSE buf

\* wgpu::COPY_BUFFER_ALIGNMENT: a copy's size is a multiple of it
COPY_BUFFER_ALIGNMENT == 4

\* CommandEncoder::copy_buffer_to_buffer(src, 0, dst, 0, size): wgpu's validation
CopyValid(src, dst, size) ==
    /\ COPY_SRC \in buf[src].usage
    /\ COPY_DST \in buf[dst].usage
    /\ size % COPY_BUFFER_ALIGNMENT = 0
    /\ size <= buf[src].size
    /\ size <= buf[dst].size

CopyCmd(src, dst, size) ==
    [op |-> "copy", src |-> src, dst |-> dst, size |-> size,
     pipeline |-> "-", bind_group |-> <<>>, groups |-> <<>>]
\* set_pipeline(pipeline), set_bind_group(0, &context.bind_group, &[]),
\* dispatch_workgroups(groups)
DispatchCmd(pipeline, groups) ==
    [op |-> "dispatch", src |-> <<>>, dst |-> <<>>, size |-> 0,
     pipeline |-> pipeline, bind_group |-> context.bind_group, groups |-> groups]

\* record a copy in the live encoder; an invalid copy is a wgpu validation
\* error, which the default uncaptured-error handler turns into a panic
RecordCopy(src, dst, size) ==
    IF encoder.live /\ CopyValid(src, dst, size)
    THEN /\ encoder' = [encoder EXCEPT !.cmds = Append(@, CopyCmd(src, dst, size))]
         /\ UNCHANGED panic
    ELSE /\ panic' = "wgpu validation error: copy_buffer_to_buffer"
         /\ UNCHANGED encoder

\* queue.submit(Some(command_encoder.finish())): the encoder is consumed; wgpu
\* refuses a command buffer that uses a buffer which is mapped or being mapped
Submit ==
    LET used == UNION { CmdBuffers(encoder.cmds[j]) : j \in 1..Len(encoder.cmds) } IN
    IF encoder.live /\ \A b \in used : buf[b].map = "unmapped"
    THEN /\ queue' = IF encoder.cmds = <<>> THEN queue ELSE Append(queue, encoder.cmds)
         /\ encoder' = [live |-> FALSE, cmds |-> <<>>]
         /\ submits' = submits + 1
         /\ UNCHANGED panic
    ELSE /\ panic' = "wgpu validation error: submit"
         /\ UNCHANGED <<queue, encoder, submits>>

\* device.poll(Maintain::Wait) returns once every submission is finished and
\* every mapping that became ready has had its callback run
PollReturns == queue = <<>> /\ mapreq = {}

-----------------------------------------------------------------------------
(* The compute kernels of shader.wgsl, by their buffer contract *)

SystemInfoBuffer == <<"system_info", "buffer">>

\* the buffers each entry point reads
KernelReads(pipeline) ==
    CASE pipeline = "k_grid_pipeline" -> {SystemInfoBuffer}
      [] pipeline = "initial_eigen_pipeline" ->
            {SystemInfoBuffer, ShaderBuffer("k_values")}
      [] pipeline = "calc_charge_density_pipeline" ->
            {SystemInfoBuffer, ShaderBuffer("energy_eigen"),
             ShaderBuffer("chem_potential_guess")}

\* the threads of one workgroup of the three entry points: 64 x 4 x 1, as the
\* plan of lib.rs:9-10 has it
WorkgroupSize == <<64, 4, 1>>

\* the buffers each entry point writes
KernelWrites(pipeline) ==
    CASE pipeline = "k_grid_pipeline" -> {ShaderBuffer("k_values")}
      [] pipeline = "initial_eigen_pipeline" ->
            {ShaderBuffer("hamiltonian"), ShaderBuffer("energy_eigen")}
      [] pipeline = "calc_charge_density_pipeline" -> {ShaderBuffer("charge_density")}

KernelId(pipeline) ==
    CASE pipeline = "k_grid_pipeline" -> 101
      [] pipeline = "initial_eigen_pipeline" -> 102
      [] pipeline = "calc_charge_density_pipeline" -> 103

\* the order a kernel's inputs are listed in
ReadOrder ==
    <<SystemInfoBuffer, ShaderBuffer("k_values"), ShaderBuffer("energy_eigen"),
      ShaderBuffer("chem_potential_guess")>>

RECURSIVE InputsFrom(_, _)
InputsFrom(pipeline, i) ==
    IF i > Len(ReadOrder) THEN <<>>
    ELSE (IF ReadOrder[i] \in KernelReads(pipeline)
          THEN <<200 + i>> \o buf[ReadOrder[i]].bytes
          ELSE <<>>) \o InputsFrom(pipeline, i + 1)

\* what a kernel leaves in an output buffer: a pure function of the kernel and
\* of the contents of the buffers it reads, written as the tag of that content
KernelOut(pipeline) == <<KernelId(pipeline)>> \o InputsFrom(pipeline, 1)

-----------------------------------------------------------------------------
(* The device *)

\* the bytes of buffer b, an all-zero buffer written out
Expand(b) == IF buf[b].bytes = <<>> THEN [i \in 1..buf[b].size |-> 0] ELSE buf[b].bytes

\* the bytes of dst after the first `size` bytes of src are copied over it
CopiedBytes(src, dst, size) ==
    IF size = buf[src].size /\ size = buf[dst].size
    THEN buf[src].bytes
    ELSE SubSeq(Expand(src), 1, size) \o SubSeq(Expand(dst), size + 1, buf[dst].size)

\* the device finishes the next command of the oldest submission
DeviceExec ==
    /\ panic = "none"
    /\ queue # <<>>
    /\ LET c == Head(Head(queue))
           rest == IF Len(Head(queue)) = 1 THEN Tail(queue)
                   ELSE <<Tail(Head(queue))>> \o Tail(queue)
       IN /\ queue' = rest
          /\ IF c.op = "copy"
             THEN /\ buf' = [buf EXCEPT ![c.dst].bytes = CopiedBytes(c.src, c.dst, c.size)]
                  /\ written' = IF c.src \in written THEN written \cup {c.dst}
                                ELSE written \ {c.dst}
                  /\ UNCHANGED executed
             ELSE /\ buf' = [b \in DOMAIN buf |->
                               IF b \in KernelWrites(c.pipeline)
                               THEN [buf[b] EXCEPT !.bytes = KernelOut(c.pipeline)]
                               ELSE buf[b]]
                  /\ written' = written \cup KernelWrites(c.pipeline)
                  /\ executed' = Append(executed, c.pipeline)
    /\ UNCHANGED <<stack, context, pairs, encoder, mapreq, chan, ret, panic, submits, out>>


-----------------------------------------------------------------------------
(* Slices *)

\* bytemuck::cast_slice from elements of fromSize bytes to elements of toSize
\* bytes reinterprets the same bytes; it panics unless they divide evenly
CastSliceOk(len, fromSize, toSize) == (len * fromSize) % toSize = 0
CastSliceLen(len, fromSize, toSize) == (len * fromSize) \div toSize

\* faulty variant: a copy that does not compare the lengths
SliceFitsUnchecked(dstLen, srcLen) == TRUE

\* <[T]>::copy_from_slice: the two slices must have the same length
SliceFits(dstLen, srcLen) == dstLen = srcLen

\* faulty variant: the result received is dropped
TryIgnoresErr(r) == TRUE

\* the `?` after recv_async().await.unwrap(): go on only with Ok(())
Try(r) == r = "Ok"

\* the frame of a method called on the constructed pair p
MethodFrame(fn, p) ==
    [Frame(fn, p) EXCEPT !.numT = pairs[p].numT, !.sizeT = pairs[p].sizeT]

-----------------------------------------------------------------------------
(* BufferInfo::copy_to_staging_buffer, buff_utils.rs:84-92 *)

CopyToStagingCode == <<"copy_buffer_to_buffer">>

copy_to_staging_buffer ==
    /\ Stmt("copy_to_staging_buffer", CopyToStagingCode, "copy_buffer_to_buffer")
    /\ RecordCopy(ShaderBuffer(Top.self), StagingBuffer(Top.self),
                  BuffSize(Top.numT, Top.sizeT))
    /\ IF panic' = "none" THEN Return(RetOk) ELSE UNCHANGED <<stack, ret>>
    /\ UNCHANGED <<context, pairs, buf, queue, mapreq, chan, written, executed, submits, out>>

-----------------------------------------------------------------------------
(* BufferInfo::set_uniform_buffer, buff_utils.rs:93-120 *)

\* faulty variant: the device is not polled between map_async and the receive
SetUniformCodeNoPoll ==
    <<"bounded", "map_async", "recv", "copy_from_slice", "unmap",
      "copy_buffer_to_buffer", "Ok">>

SetUniformCode ==
    <<"bounded", "map_async", "poll", "recv", "copy_from_slice", "unmap",
      "copy_buffer_to_buffer", "Ok">>

\* line 100: flume::bounded(1)
set_uniform_buffer_bounded ==
    /\ Stmt("set_uniform_buffer", SetUniformCode, "bounded")
    /\ chan' = [live |-> TRUE, slot |-> <<>>]
    /\ Advance
    /\ UNCHANGED <<context, pairs, ret, panic, out>>
    /\ UNCHANGED wgpuVars

\* faulty variant: a read mapping is asked for as well as the write mapping
set_uniform_buffer_map_async_both ==
    /\ Stmt("set_uniform_buffer", SetUniformCode, "map_async")
    /\ LET b == StagingBuffer(Top.self)
           valid == buf[b].map = "unmapped" /\ MAP_WRITE \in buf[b].usage
       IN /\ mapreq' = mapreq \cup {[b |-> b, mode |-> "Write", refused |-> ~valid],
                                    [b |-> b, mode |-> "Read", refused |-> TRUE]}
          /\ buf' = IF valid THEN [buf EXCEPT ![b].map = "pending"] ELSE buf
    /\ Advance
    /\ UNCHANGED <<context, pairs, ret, panic, out, chan>>
    /\ UNCHANGED <<encoder, queue, written, executed, submits>>

\* lines 101-103: map_async(MapMode::Write, ..) on the staging buffer
set_uniform_buffer_map_async ==
    /\ Stmt("set_uniform_buffer", SetUniformCode, "map_async")
    /\ MapAsync(StagingBuffer(Top.self), "Write")
    /\ Advance
    /\ UNCHANGED <<context, pairs, ret, panic, out, chan>>
    /\ UNCHANGED <<encoder, queue, written, executed, submits>>

\* line 104: device.poll(Maintain::wait())
set_uniform_buffer_poll ==
    /\ Stmt("set_uniform_buffer", SetUniformCode, "poll")
    /\ PollReturns
    /\ Advance
    /\ UNCHANGED <<context, pairs, ret, panic, out, chan>>
    /\ UNCHANGED wgpuVars

\* line 105: receiver.recv_async().await.unwrap()?
set_uniform_buffer_recv ==
    /\ Stmt("set_uniform_buffer", SetUniformCode, "recv")
    /\ chan.slot # <<>>
    /\ IF Try(Head(chan.slot))
       THEN /\ chan' = [chan EXCEPT !.slot = Tail(@)]
            /\ Advance
            /\ UNCHANGED ret
       ELSE /\ chan' = NoChan
            /\ Return(RetErr)
    /\ UNCHANGED <<context, pairs, panic, out>>
    /\ UNCHANGED wgpuVars

\* lines 106-109: get_mapped_range_mut() and view.copy_from_slice(cast_slice(data))
set_uniform_buffer_copy_from_slice ==
    /\ Stmt("set_uniform_buffer", SetUniformCode, "copy_from_slice")
    /\ LET b == StagingBuffer(Top.self) IN
       IF buf[b].map # "mapped"
       THEN panic' = "get_mapped_range_mut: buffer is not mapped"
            /\ UNCHANGED <<buf, written>>
       ELSE IF CastSliceOk(Top.data.len, Top.sizeT, 1)
               /\ SliceFits(buf[b].size, CastSliceLen(Top.data.len, Top.sizeT, 1))
            THEN /\ buf' = [buf EXCEPT ![b].bytes = Top.data.bytes]
                 /\ written' = written \cup {b}
                 /\ UNCHANGED panic
            ELSE /\ panic' = "source slice length does not match destination slice length"
                 /\ UNCHANGED <<buf, written>>
    /\ IF panic' = "none" THEN Advance ELSE UNCHANGED stack
    /\ UNCHANGED <<context, pairs, ret, out, chan>>
    /\ UNCHANGED <<encoder, queue, mapreq, executed, submits>>

\* faulty variant: the staging buffer is left mapped after the write
set_uniform_buffer_no_unmap ==
    /\ Stmt("set_uniform_buffer", SetUniformCode, "unmap")
    /\ Advance
    /\ UNCHANGED <<context, pairs, ret, panic, out, chan>>
    /\ UNCHANGED wgpuVars

\* line 110: self.staging_buffer.unmap()
set_uniform_buffer_unmap ==
    /\ Stmt("set_uniform_buffer", SetUniformCode, "unmap")
    /\ buf' = [buf EXCEPT ![StagingBuffer(Top.self)].map = "unmapped"]
    /\ Advance
    /\ UNCHANGED <<context, pairs, ret, panic, out, chan>>
    /\ UNCHANGED <<encoder, queue, mapreq, written, executed, submits>>

\* faulty variant: the staging buffer is written and unmapped, but no copy is recorded
set_uniform_buffer_no_copy ==
    /\ Stmt("set_uniform_buffer", SetUniformCode, "copy_buffer_to_buffer")
    /\ Advance
    /\ UNCHANGED <<context, pairs, ret, panic, out, chan>>
    /\ UNCHANGED wgpuVars

\* lines 112-118: copy_buffer_to_buffer(staging_buffer, 0, shader_buffer, 0, size)
set_uniform_buffer_copy_buffer_to_buffer ==
    /\ Stmt("set_uniform_buffer", SetUniformCode, "copy_buffer_to_buffer")
    /\ RecordCopy(StagingBuffer(Top.self), ShaderBuffer(Top.self),
                  BuffSize(Top.numT, Top.sizeT))
    /\ IF panic' = "none" THEN Advance ELSE UNCHANGED stack
    /\ UNCHANGED <<context, pairs, ret, out, chan>>
    /\ UNCHANGED <<buf, queue, mapreq, written, executed, submits>>

\* line 119: Ok(()); the receiver is dropped with the frame
set_uniform_buffer_Ok ==
    /\ Stmt("set_uniform_buffer", SetUniformCode, "Ok")
    /\ chan' = NoChan
    /\ Return(RetOk)
    /\ UNCHANGED <<context, pairs, panic, out>>
    /\ UNCHANGED wgpuVars

set_uniform_buffer ==
    \/ set_uniform_buffer_bounded
    \/ set_uniform_buffer_map_async
    \/ set_uniform_buffer_poll
    \/ set_uniform_buffer_recv
    \/ set_uniform_buffer_copy_from_slice
    \/ set_uniform_buffer_unmap
    \/ set_uniform_buffer_copy_buffer_to_buffer
    \/ set_uniform_buffer_Ok

-----------------------------------------------------------------------------
(* BufferInfo::read_staging_buffer, buff_utils.rs:121-140 *)

ReadStagingCode ==
    <<"local_buffer", "bounded", "map_async", "poll", "recv", "copy_from_slice",
      "unmap", "Ok">>

\* line 125: vec![T::zeroed(); NUM_T as usize]
read_staging_buffer_local_buffer ==
    /\ Stmt("read_staging_buffer", ReadStagingCode, "local_buffer")
    /\ stack' = [stack EXCEPT ![Len(stack)].at = @ + 1,
                              ![Len(stack)].local_buffer = [len |-> Top.numT, bytes |-> <<>>]]
    /\ UNCHANGED <<context, pairs, ret, panic, out, chan>>
    /\ UNCHANGED wgpuVars

\* faulty variant: no channel is created, the one of an earlier call is used
read_staging_buffer_reuse_channel ==
    /\ Stmt("read_staging_buffer", ReadStagingCode, "bounded")
    /\ Advance
    /\ UNCHANGED <<context, pairs, ret, panic, out, chan>>
    /\ UNCHANGED wgpuVars

\* line 126: flume::bounded(1)
read_staging_buffer_bounded ==
    /\ Stmt("read_staging_buffer", ReadStagingCode, "bounded")
    /\ chan' = [live |-> TRUE, slot |-> <<>>]
    /\ Advance
    /\ UNCHANGED <<context, pairs, ret, panic, out>>
    /\ UNCHANGED wgpuVars

\* lines 127-130: map_async(MapMode::Read, ..) on the staging buffer
read_staging_buffer_map_async ==
    /\ Stmt("read_staging_buffer", ReadStagingCode, "map_async")
    /\ MapAsync(StagingBuffer(Top.self), "Read")
    /\ Advance
    /\ UNCHANGED <<context, pairs, ret, panic, out, chan>>
    /\ UNCHANGED <<encoder, queue, written, executed, submits>>

\* line 131: device.poll(Maintain::Wait)
read_staging_buffer_poll ==
    /\ Stmt("read_staging_buffer", ReadStagingCode, "poll")
    /\ PollReturns
    /\ Advance
    /\ UNCHANGED <<context, pairs, ret, panic, out, chan>>
    /\ UNCHANGED wgpuVars

\* line 132: receiver.recv_async().await.unwrap()?
read_staging_buffer_recv ==
    /\ Stmt("read_staging_buffer", ReadStagingCode, "recv")
    /\ chan.slot # <<>>
    /\ IF Try(Head(chan.slot))
       THEN /\ chan' = [chan EXCEPT !.slot = Tail(@)]
            /\ Advance
            /\ UNCHANGED ret
       ELSE /\ chan' = NoChan
            /\ Return(RetErr)
    /\ UNCHANGED <<context, pairs, panic, out>>
    /\ UNCHANGED wgpuVars

\* faulty variant: extend_from_slice instead of copy_from_slice
read_staging_buffer_extend_from_slice ==
    /\ Stmt("read_staging_buffer", ReadStagingCode, "copy_from_slice")
    /\ LET b == StagingBuffer(Top.self) IN
       IF buf[b].map # "mapped" \/ ~CastSliceOk(buf[b].size, 1, Top.sizeT)
       THEN panic' = "get_mapped_range: buffer is not mapped" /\ UNCHANGED stack
       ELSE /\ stack' = [stack EXCEPT ![Len(stack)].at = @ + 1,
                            ![Len(stack)].local_buffer =
                                [len |-> @.len + CastSliceLen(buf[b].size, 1, Top.sizeT),
                                 bytes |-> @.bytes \o buf[b].bytes]]
            /\ UNCHANGED panic
    /\ UNCHANGED <<context, pairs, ret, out, chan>>
    /\ UNCHANGED wgpuVars

\* lines 133-136: get_mapped_range() and
\* local_buffer.copy_from_slice(cast_slice(&view))
read_staging_buffer_copy_from_slice ==
    /\ Stmt("read_staging_buffer", ReadStagingCode, "copy_from_slice")
    /\ LET b == StagingBuffer(Top.self) IN
       IF buf[b].map # "mapped"
       THEN panic' = "get_mapped_range: buffer is not mapped" /\ UNCHANGED stack
       ELSE IF CastSliceOk(buf[b].size, 1, Top.sizeT)
               /\ SliceFits(Top.local_buffer.len, CastSliceLen(buf[b].size, 1, Top.sizeT))
            THEN /\ stack' = [stack EXCEPT ![Len(stack)].at = @ + 1,
                                 ![Len(stack)].local_buffer.bytes = buf[b].bytes]
                 /\ UNCHANGED panic
            ELSE /\ panic' = "source slice length does not match destination slice length"
                 /\ UNCHANGED stack
    /\ UNCHANGED <<context, pairs, ret, out, chan>>
    /\ UNCHANGED wgpuVars

\* faulty variant: the staging buffer is left mapped after the read
read_staging_buffer_no_unmap ==
    /\ Stmt("read_staging_buffer", ReadStagingCode, "unmap")
    /\ Advance
    /\ UNCHANGED <<context, pairs, ret, panic, out, chan>>
    /\ UNCHANGED wgpuVars

\* line 137: self.staging_buffer.unmap()
read_staging_buffer_unmap ==
    /\ Stmt("read_staging_buffer", ReadStagingCode, "unmap")
    /\ buf' = [buf EXCEPT ![StagingBuffer(Top.self)].map = "unmapped"]
    /\ Advance
    /\ UNCHANGED <<context, pairs, ret, panic, out, chan>>
    /\ UNCHANGED <<encoder, queue, mapreq, written, executed, submits>>

\* line 139: Ok(local_buffer)
read_staging_buffer_Ok ==
    /\ Stmt("read_staging_buffer", ReadStagingCode, "Ok")
    /\ chan' = NoChan
    /\ Return(RetVec(Top.local_buffer))
    /\ UNCHANGED <<context, pairs, panic, out>>
    /\ UNCHANGED wgpuVars

read_staging_buffer ==
    \/ read_staging_buffer_local_buffer
    \/ read_staging_buffer_bounded
    \/ read_staging_buffer_map_async
    \/ read_staging_buffer_poll
    \/ read_staging_buffer_recv
    \/ read_staging_buffer_copy_from_slice
    \/ read_staging_buffer_unmap
    \/ read_staging_buffer_Ok

BufferInfoMethods ==
    BufferInfo_new \/ copy_to_staging_buffer \/ set_uniform_buffer \/ read_staging_buffer

-----------------------------------------------------------------------------
(* SpecPair: a caller of the BufferInfo API.  It builds two pairs of one     *)
(* element type and count with any usage arguments, writes any data through *)
(* pair w, has the device mirror w's shader buffer into r's, copies r's     *)
(* shader buffer to its staging buffer and reads it back.                   *)

PairNames == {"pair_a", "pair_b"}

\* the data arguments tried: every length from 0 to numT + 1 elements
DataInputs(numT, sizeT) ==
    UNION { LET n == l * sizeT IN
            { [len |-> l, bytes |-> [i \in 1..n |-> v]] : v \in ByteVals }
              \cup { [len |-> l, bytes |-> [i \in 1..n |-> i % 2]] }
          : l \in 0..(numT + 1) }

CallerCode ==
    <<"new_a", "new_b", "create_command_encoder", "set_uniform_buffer", "submit",
      "mirror", "create_command_encoder", "copy_to_staging_buffer", "submit",
      "read_staging_buffer">>

caller_new_a ==
    /\ Stmt("caller", CallerCode, "new_a")
    /\ \E usage \in UsageInputs :
         Call(NewFrame("pair_a", 0, usage, Top.numT, Top.sizeT))
    /\ UNCHANGED <<context, pairs, ret, panic, out, chan>>
    /\ UNCHANGED wgpuVars

caller_new_b ==
    /\ Stmt("caller", CallerCode, "new_b")
    /\ \E usage \in UsageInputs :
         Call(NewFrame("pair_b", 1, usage, Top.numT, Top.sizeT))
    /\ UNCHANGED <<context, pairs, ret, panic, out, chan>>
    /\ UNCHANGED wgpuVars

caller_create_command_encoder ==
    /\ Stmt("caller", CallerCode, "create_command_encoder")
    /\ encoder' = [live |-> TRUE, cmds |-> <<>>]
    /\ Advance
    /\ UNCHANGED <<context, pairs, ret, panic, out, chan>>
    /\ UNCHANGED <<buf, queue, mapreq, written, executed, submits>>

caller_set_uniform_buffer ==
    /\ Stmt("caller", CallerCode, "set_uniform_buffer")
    /\ \E d \in DataInputs(Top.numT, Top.sizeT) :
         stack' = Append([stack EXCEPT ![Len(stack)].data = d],
                         [MethodFrame("set_uniform_buffer", Top.self.w) EXCEPT !.data = d])
    /\ UNCHANGED <<context, pairs, ret, panic, out, chan>>
    /\ UNCHANGED wgpuVars

caller_submit ==
    /\ Stmt("caller", CallerCode, "submit")
    /\ Submit
    /\ IF panic' = "none" THEN Advance ELSE UNCHANGED stack
    /\ UNCHANGED <<context, pairs, ret, out, chan>>
    /\ UNCHANGED <<buf, mapreq, written, executed>>

\* the device copies w's shader buffer into r's, as a kernel bound to both
\* would: r's must be a storage buffer, w's a uniform or storage buffer
caller_mirror ==
    /\ Stmt("caller", CallerCode, "mirror")
    /\ queue = <<>>
    /\ LET src == ShaderBuffer(Top.self.w)
           dst == ShaderBuffer(Top.self.r)
       IN IF STORAGE \in buf[dst].usage
             /\ buf[src].usage \cap {STORAGE, UNIFORM} # {}
             /\ buf[src].size = buf[dst].size
          THEN /\ buf' = [buf EXCEPT ![dst].bytes = buf[src].bytes]
               /\ written' = IF src \in written THEN written \cup {dst}
                             ELSE written \ {dst}
          ELSE UNCHANGED <<buf, written>>
    /\ Advance
    /\ UNCHANGED <<context, pairs, ret, panic, out, chan>>
    /\ UNCHANGED <<encoder, queue, mapreq, executed, submits>>

caller_copy_to_staging_buffer ==
    /\ Stmt("caller", CallerCode, "copy_to_staging_buffer")
    /\ Call(MethodFrame("copy_to_staging_buffer", Top.self.r))
    /\ UNCHANGED <<context, pairs, ret, panic, out, chan>>
    /\ UNCHANGED wgpuVars

caller_read_staging_buffer ==
    /\ Stmt("caller", CallerCode, "read_staging_buffer")
    /\ Call(MethodFrame("read_staging_buffer", Top.self.r))
    /\ UNCHANGED <<context, pairs, ret, panic, out, chan>>
    /\ UNCHANGED wgpuVars

Caller ==
    \/ caller_new_a
    \/ caller_new_b
    \/ caller_create_command_encoder
    \/ caller_set_uniform_buffer
    \/ caller_submit
    \/ caller_mirror
    \/ caller_copy_to_staging_buffer
    \/ caller_read_staging_buffer

InitWgpu ==
    /\ pairs = <<>>
    /\ context = NoContext
    /\ buf = <<>>
    /\ encoder = [live |-> FALSE, cmds |-> <<>>]
    /\ queue = <<>>
    /\ mapreq = {}
    /\ chan = NoChan
    /\ ret = NoRet
    /\ panic = "none"
    /\ written = {}
    /\ executed = <<>>
    /\ submits = 0
    /\ out = <<>>

InitPair ==
    /\ InitWgpu
    /\ \E n \in 1..MaxN, sz \in ElemSizes, w \in PairNames, r \in PairNames :
         stack = << [Frame("caller", [w |-> w, r |-> r])
                       EXCEPT !.numT = n, !.sizeT = sz] >>


-----------------------------------------------------------------------------
(* lib.rs: the records and their sizes *)

\* size_of::<f32>()
SizeOfF32 == 4
\* [f32; 2]
SizeOfKValue == 2 * SizeOfF32
\* H2x2 { h: [[f32; 2]; 4] }
SizeOfH2x2 == 2 * 4 * SizeOfF32
\* EigenInfo { k_value: [f32; 2], eigenvalues: [f32; 2], eigenvectors: [[[f32; 2]; 2]; 2] }
SizeOfEigenInfo == (2 + 2 + 2 * 2 * 2) * SizeOfF32
\* SystemInfo: four [f32; 2] and six f32
SizeOfSystemInfo == (4 * 2 + 6) * SizeOfF32

\* the element count { 512 * 512 } of the grid-sized pairs
GridPoints == 512 * 512

\* bytemuck::cast_slice(&[*SYSTEM_INFO]): the tag of the bytes of the lazy
\* static, named by a0 = 3.193 (in thousandths), delta = 0 and |t| = 1
SYSTEM_INFO == <<3193, 0, 1>>

\* the bytes of the f32 0.0
ZeroF32 == <<0, 0, 0, 0>>

-----------------------------------------------------------------------------
(* BufferInfo::get_bind_group_layout_entry / get_bind_group_entry,           *)
(* buff_utils.rs:59-83                                                      *)

get_bind_group_layout_entry(p) ==
    [binding |-> pairs[p].binding,
     ty |-> IF contains(pairs[p].usage, {STORAGE}) THEN "Storage"
            ELSE IF contains(pairs[p].usage, {UNIFORM}) THEN "Uniform"
            ELSE "panic"]

get_bind_group_entry(p) ==
    [binding |-> pairs[p].binding, resource |-> ShaderBuffer(p)]

-----------------------------------------------------------------------------
(* WgpuContext::new, lib.rs:197-354 *)

ContextNewCode ==
    <<"request_adapter", "request_device", "create_shader_module",
      "system_info_buffer", "k_values_buf_info", "hamiltonian_buf_info",
      "energy_eigen_buf_info", "chem_potential_guess_buf_info",
      "charge_density_buf_info", "bind_group_layout", "bind_group",
      "pipeline_layout", "k_grid_pipeline", "initial_eigen_pipeline",
      "calc_charge_density_pipeline", "WgpuContext">>

\* lines 198-202: instance.request_adapter(..).await.unwrap(); there may be no adapter
context_request_adapter ==
    /\ Stmt("WgpuContext_new", ContextNewCode, "request_adapter")
    /\ \E found \in BOOLEAN :
         IF found
         THEN /\ context' = [context EXCEPT !.adapter = TRUE]
              /\ Advance
              /\ UNCHANGED panic
         ELSE /\ panic' = "called Option::unwrap() on a None value"
              /\ UNCHANGED <<context, stack>>
    /\ UNCHANGED <<pairs, ret, out, chan>>
    /\ UNCHANGED wgpuVars

\* lines 203-214: adapter.request_device(..).await.unwrap(); the request may fail
context_request_device ==
    /\ Stmt("WgpuContext_new", ContextNewCode, "request_device")
    /\ \E granted \in BOOLEAN :
         IF granted
         THEN /\ context' = [context EXCEPT !.device = TRUE]
              /\ Advance
              /\ UNCHANGED panic
         ELSE /\ panic' = "called Result::unwrap() on an Err value"
              /\ UNCHANGED <<context, stack>>
    /\ UNCHANGED <<pairs, ret, out, chan>>
    /\ UNCHANGED wgpuVars

\* line 217: device.create_shader_module(include_wgsl!("shader.wgsl"))
context_create_shader_module ==
    /\ Stmt("WgpuContext_new", ContextNewCode, "create_shader_module")
    /\ context' = [context EXCEPT !.shader = TRUE]
    /\ Advance
    /\ UNCHANGED <<pairs, ret, panic, out, chan>>
    /\ UNCHANGED wgpuVars

\* faulty variant: the buffer is created empty, to be filled by a later copy
context_system_info_buffer_uninit ==
    /\ Stmt("WgpuContext_new", ContextNewCode, "system_info_buffer")
    /\ buf' = buf @@ (SystemInfoBuffer :>
                [size |-> SizeOfSystemInfo, usage |-> {UNIFORM, COPY_DST},
                 bytes |-> <<>>, map |-> "unmapped"])
    /\ Advance
    /\ UNCHANGED <<context, pairs, ret, panic, out, chan>>
    /\ UNCHANGED <<encoder, queue, mapreq, written, executed, submits>>

\* lines 220-224: create_buffer_init with the bytes of SYSTEM_INFO
context_system_info_buffer ==
    /\ Stmt("WgpuContext_new", ContextNewCode, "system_info_buffer")
    /\ buf' = buf @@ (SystemInfoBuffer :>
                [size |-> SizeOfSystemInfo, usage |-> {UNIFORM},
                 bytes |-> SYSTEM_INFO, map |-> "unmapped"])
    /\ written' = written \cup {SystemInfoBuffer}
    /\ Advance
    /\ UNCHANGED <<context, pairs, ret, panic, out, chan>>
    /\ UNCHANGED <<encoder, queue, mapreq, executed, submits>>

\* a statement `let x_buf_info = BufferInfo::<numT, T>::new(&device, .., binding, usage)`
BufInfoStmt(label, p, binding, usage, numT, sizeT) ==
    /\ Stmt("WgpuContext_new", ContextNewCode, label)
    /\ Call(NewFrame(p, binding, usage, numT, sizeT))
    /\ UNCHANGED <<context, pairs, ret, panic, out, chan>>
    /\ UNCHANGED wgpuVars

\* lines 226-231
context_k_values_buf_info ==
    BufInfoStmt("k_values_buf_info", "k_values", 1, {STORAGE}, GridPoints, SizeOfKValue)

\* lines 233-238
context_hamiltonian_buf_info ==
    BufInfoStmt("hamiltonian_buf_info", "hamiltonian", 2, {STORAGE}, GridPoints, SizeOfH2x2)

\* lines 240-245
context_energy_eigen_buf_info ==
    BufInfoStmt("energy_eigen_buf_info", "energy_eigen", 3, {STORAGE}, GridPoints,
                SizeOfEigenInfo)

\* faulty variant: the chemical potential is given the slot of the charge density
context_chem_potential_guess_buf_info_slot5 ==
    BufInfoStmt("chem_potential_guess_buf_info", "chem_potential_guess", 5, {UNIFORM},
                1, SizeOfF32)

\* lines 247-252
context_chem_potential_guess_buf_info ==
    BufInfoStmt("chem_potential_guess_buf_info", "chem_potential_guess", 4, {UNIFORM},
                1, SizeOfF32)

\* lines 254-259
context_charge_density_buf_info ==
    BufInfoStmt("charge_density_buf_info", "charge_density", 5, {STORAGE}, GridPoints,
                SizeOfF32)

\* the order the five pairs are listed in, in the layout and in the bind group
LayoutOrder ==
    <<"k_values", "hamiltonian", "energy_eigen", "chem_potential_guess", "charge_density">>

\* lines 262-288: the six layout entries
context_bind_group_layout ==
    /\ Stmt("WgpuContext_new", ContextNewCode, "bind_group_layout")
    /\ context' = [context EXCEPT !.bind_group_layout =
                      <<[binding |-> 0, ty |-> "Uniform"]>>
                      \o [i \in 1..Len(LayoutOrder) |->
                            get_bind_group_layout_entry(LayoutOrder[i])]]
    /\ Advance
    /\ UNCHANGED <<pairs, ret, panic, out, chan>>
    /\ UNCHANGED wgpuVars

\* lines 291-305: the six bind group entries
context_bind_group ==
    /\ Stmt("WgpuContext_new", ContextNewCode, "bind_group")
    /\ context' = [context EXCEPT !.bind_group =
                      <<[binding |-> 0, resource |-> SystemInfoBuffer]>>
                      \o [i \in 1..Len(LayoutOrder) |->
                            get_bind_group_entry(LayoutOrder[i])]]
    /\ Advance
    /\ UNCHANGED <<pairs, ret, panic, out, chan>>
    /\ UNCHANGED wgpuVars

\* lines 307-311: the pipeline layout holds the one bind group layout
context_pipeline_layout ==
    /\ Stmt("WgpuContext_new", ContextNewCode, "pipeline_layout")
    /\ context' = [context EXCEPT !.pipeline_layout = <<context.bind_group_layout>>]
    /\ Advance
    /\ UNCHANGED <<pairs, ret, panic, out, chan>>
    /\ UNCHANGED wgpuVars

\* a statement `let x_pipeline = device.create_compute_pipeline(..)` with
\* layout: Some(&pipeline_layout)
PipelineStmt(label, entry_point) ==
    /\ Stmt("WgpuContext_new", ContextNewCode, label)
    /\ context' = [context EXCEPT !.pipelines =
                      @ \cup {[name |-> label, entry_point |-> entry_point,
                               layout |-> context.pipeline_layout]}]
    /\ Advance
    /\ UNCHANGED <<pairs, ret, panic, out, chan>>
    /\ UNCHANGED wgpuVars

\* lines 312-319
context_k_grid_pipeline == PipelineStmt("k_grid_pipeline", "compute_k_grid")
\* lines 320-328
context_initial_eigen_pipeline ==
    PipelineStmt("initial_eigen_pipeline", "calc_initial_eigen")
\* lines 330-338
context_calc_charge_density_pipeline ==
    PipelineStmt("calc_charge_density_pipeline", "calc_charge_density")

\* lines 340-353
context_WgpuContext ==
    /\ Stmt("WgpuContext_new", ContextNewCode, "WgpuContext")
    /\ Return(RetOk)
    /\ UNCHANGED <<context, pairs, panic, out, chan>>
    /\ UNCHANGED wgpuVars

WgpuContext_new ==
    \/ context_request_adapter
    \/ context_request_device
    \/ context_create_shader_module
    \/ context_system_info_buffer
    \/ context_k_values_buf_info
    \/ context_hamiltonian_buf_info
    \/ context_energy_eigen_buf_info
    \/ context_chem_potential_guess_buf_info
    \/ context_charge_density_buf_info
    \/ context_bind_group_layout
    \/ context_bind_group
    \/ context_pipeline_layout
    \/ context_k_grid_pipeline
    \/ context_initial_eigen_pipeline
    \/ context_calc_charge_density_pipeline
    \/ context_WgpuContext

-----------------------------------------------------------------------------
(* The statements the three stage functions share *)

\* device.create_command_encoder(..)
CreateCommandEncoder(fn, code) ==
    /\ Stmt(fn, code, "create_command_encoder")
    /\ encoder' = [live |-> TRUE, cmds |-> <<>>]
    /\ Advance
    /\ UNCHANGED <<context, pairs, ret, panic, out, chan>>
    /\ UNCHANGED <<buf, queue, mapreq, written, executed, submits>>

\* faulty variant: half the rows of workgroups are dispatched
DispatchWorkgroupsHalf(fn, code, pipeline) ==
    /\ Stmt(fn, code, "dispatch_workgroups")
    /\ encoder.live
    /\ encoder' = [encoder EXCEPT !.cmds = Append(@, DispatchCmd(pipeline, <<32, 16, 1>>))]
    /\ Advance
    /\ UNCHANGED <<context, pairs, ret, panic, out, chan>>
    /\ UNCHANGED <<buf, queue, mapreq, written, executed, submits>>

\* the compute pass: set_pipeline, set_bind_group(0, ..), dispatch_workgroups(32, 32, 1)
DispatchWorkgroups(fn, code, pipeline) ==
    /\ Stmt(fn, code, "dispatch_workgroups")
    /\ encoder.live
    /\ encoder' = [encoder EXCEPT !.cmds = Append(@, DispatchCmd(pipeline, <<32, 32, 1>>))]
    /\ Advance
    /\ UNCHANGED <<context, pairs, ret, panic, out, chan>>
    /\ UNCHANGED <<buf, queue, mapreq, written, executed, submits>>

\* context.queue.submit(Some(command_encoder.finish()))
QueueSubmit(fn, code) ==
    /\ Stmt(fn, code, "submit")
    /\ Submit
    /\ IF panic' = "none" THEN Advance ELSE UNCHANGED stack
    /\ UNCHANGED <<context, pairs, ret, out, chan>>
    /\ UNCHANGED <<buf, mapreq, written, executed>>

\* context.device.poll(wgpu::Maintain::Wait).panic_on_timeout()
DevicePoll(fn, code) ==
    /\ Stmt(fn, code, "poll")
    /\ PollReturns
    /\ Advance
    /\ UNCHANGED <<context, pairs, ret, panic, out, chan>>
    /\ UNCHANGED wgpuVars

\* the end of a function returning ()
ReturnUnit(fn, code) ==
    /\ Stmt(fn, code, "return")
    /\ Return(RetOk)
    /\ UNCHANGED <<context, pairs, panic, out, chan>>
    /\ UNCHANGED wgpuVars

-----------------------------------------------------------------------------
(* calc_k_grid, lib.rs:99-119 *)

\* faulty variant: calc_k_grid returns without waiting for the device
CalcKGridCodeNoPoll ==
    <<"create_command_encoder", "dispatch_workgroups", "submit", "return">>

CalcKGridCode ==
    <<"create_command_encoder", "dispatch_workgroups", "submit", "poll", "return">>

calc_k_grid ==
    \/ CreateCommandEncoder("calc_k_grid", CalcKGridCode)
    \/ DispatchWorkgroups("calc_k_grid", CalcKGridCode, "k_grid_pipeline")
    \/ QueueSubmit("calc_k_grid", CalcKGridCode)
    \/ DevicePoll("calc_k_grid", CalcKGridCode)
    \/ ReturnUnit("calc_k_grid", CalcKGridCode)

(* calc_initial_eigen, lib.rs:121-141 *)

CalcInitialEigenCode ==
    <<"create_command_encoder", "dispatch_workgroups", "submit", "poll", "return">>

calc_initial_eigen ==
    \/ CreateCommandEncoder("calc_initial_eigen", CalcInitialEigenCode)
    \/ DispatchWorkgroups("calc_initial_eigen", CalcInitialEigenCode,
                          "initial_eigen_pipeline")
    \/ QueueSubmit("calc_initial_eigen", CalcInitialEigenCode)
    \/ DevicePoll("calc_initial_eigen", CalcInitialEigenCode)
    \/ ReturnUnit("calc_initial_eigen", CalcInitialEigenCode)

-----------------------------------------------------------------------------
(* get_charge_density, lib.rs:143-178 *)

\* faulty variant: the charge density is read back before the command buffer is
\* submitted
GetChargeDensityCodeReadFirst ==
    <<"create_command_encoder", "set_uniform_buffer", "unwrap", "dispatch_workgroups",
      "copy_to_staging_buffer", "read_staging_buffer", "unwrap", "submit", "density">>

\* faulty variant: the density kernel is dispatched before the chemical
\* potential is written
GetChargeDensityCodeDispatchFirst ==
    <<"create_command_encoder", "dispatch_workgroups", "set_uniform_buffer", "unwrap",
      "copy_to_staging_buffer", "submit", "read_staging_buffer", "unwrap", "density">>

GetChargeDensityCode ==
    <<"create_command_encoder", "set_uniform_buffer", "unwrap",
      "dispatch_workgroups", "copy_to_staging_buffer", "submit",
      "read_staging_buffer", "unwrap", "density">>

\* faulty variant: the error is dropped
UnwrapIgnores(r) == FALSE

\* Result::unwrap panics on Err
UnwrapPanics(r) == r.tag = "Err"

\* lines 148-152: chem_potential_guess_buf_info.set_uniform_buffer(.., &[chem_potential])
density_set_uniform_buffer ==
    /\ Stmt("get_charge_density", GetChargeDensityCode, "set_uniform_buffer")
    /\ Call([MethodFrame("set_uniform_buffer", "chem_potential_guess")
               EXCEPT !.data = Top.data])
    /\ UNCHANGED <<context, pairs, ret, panic, out, chan>>
    /\ UNCHANGED wgpuVars

\* lines 152 and 175: .await.unwrap()
density_unwrap ==
    /\ Stmt("get_charge_density", GetChargeDensityCode, "unwrap")
    /\ IF UnwrapPanics(ret)
       THEN panic' = "called Result::unwrap() on an Err value" /\ UNCHANGED stack
       ELSE Advance /\ UNCHANGED panic
    /\ UNCHANGED <<context, pairs, ret, out, chan>>
    /\ UNCHANGED wgpuVars

\* lines 164-166: charge_density_buf_info.copy_to_staging_buffer(&mut command_encoder)
density_copy_to_staging_buffer ==
    /\ Stmt("get_charge_density", GetChargeDensityCode, "copy_to_staging_buffer")
    /\ Call(MethodFrame("copy_to_staging_buffer", "charge_density"))
    /\ UNCHANGED <<context, pairs, ret, panic, out, chan>>
    /\ UNCHANGED wgpuVars

\* lines 171-175: charge_density_buf_info.read_staging_buffer(&context.device)
density_read_staging_buffer ==
    /\ Stmt("get_charge_density", GetChargeDensityCode, "read_staging_buffer")
    /\ Call(MethodFrame("read_staging_buffer", "charge_density"))
    /\ UNCHANGED <<context, pairs, ret, panic, out, chan>>
    /\ UNCHANGED wgpuVars

\* line 177: density
density_density ==
    /\ Stmt("get_charge_density", GetChargeDensityCode, "density")
    /\ Return(ret)
    /\ UNCHANGED <<context, pairs, panic, out, chan>>
    /\ UNCHANGED wgpuVars

get_charge_density ==
    \/ CreateCommandEncoder("get_charge_density", GetChargeDensityCode)
    \/ density_set_uniform_buffer
    \/ density_unwrap
    \/ DispatchWorkgroups("get_charge_density", GetChargeDensityCode,
                          "calc_charge_density_pipeline")
    \/ density_copy_to_staging_buffer
    \/ QueueSubmit("get_charge_density", GetChargeDensityCode)
    \/ density_read_staging_buffer
    \/ density_density

-----------------------------------------------------------------------------
(* run, lib.rs:52-67 *)

\* faulty variant: the eigensolver stage is run before the k-grid stage
RunCodeEigenFirst ==
    <<"println_config", "WgpuContext_new", "calc_initial_eigen", "calc_k_grid",
      "get_charge_density", "density", "println", "return">>

RunCode ==
    <<"println_config", "WgpuContext_new", "calc_k_grid", "calc_initial_eigen",
      "get_charge_density", "density", "println", "return">>

\* lines 53-54: the system configuration printed
run_println_config ==
    /\ Stmt("run", RunCode, "println_config")
    /\ out' = Append(out, [points |-> 0, chem_potential |-> <<>>, density |-> SYSTEM_INFO])
    /\ Advance
    /\ UNCHANGED <<context, pairs, ret, panic, chan>>
    /\ UNCHANGED wgpuVars

\* line 55
run_WgpuContext_new ==
    /\ Stmt("run", RunCode, "WgpuContext_new")
    /\ Call(Frame("WgpuContext_new", "-"))
    /\ UNCHANGED <<context, pairs, ret, panic, out, chan>>
    /\ UNCHANGED wgpuVars

\* line 57
run_calc_k_grid ==
    /\ Stmt("run", RunCode, "calc_k_grid")
    /\ Call(Frame("calc_k_grid", "-"))
    /\ UNCHANGED <<context, pairs, ret, panic, out, chan>>
    /\ UNCHANGED wgpuVars

\* line 58
run_calc_initial_eigen ==
    /\ Stmt("run", RunCode, "calc_initial_eigen")
    /\ Call(Frame("calc_initial_eigen", "-"))
    /\ UNCHANGED <<context, pairs, ret, panic, out, chan>>
    /\ UNCHANGED wgpuVars

\* lines 60-61: chem_potential = 0.0; get_charge_density(&context, chem_potential)
run_get_charge_density ==
    /\ Stmt("run", RunCode, "get_charge_density")
    /\ Call([Frame("get_charge_density", "-")
               EXCEPT !.data = [len |-> 1, bytes |-> ZeroF32]])
    /\ UNCHANGED <<context, pairs, ret, panic, out, chan>>
    /\ UNCHANGED wgpuVars

\* line 62: the mean of density_arr
run_density ==
    /\ Stmt("run", RunCode, "density")
    /\ stack' = [stack EXCEPT ![Len(stack)].at = @ + 1,
                              ![Len(stack)].local_buffer = ret.vec]
    /\ UNCHANGED <<context, pairs, ret, panic, out, chan>>
    /\ UNCHANGED wgpuVars

\* lines 63-65: the three lines printed
run_println ==
    /\ Stmt("run", RunCode, "println")
    /\ out' = Append(out, [points |-> Top.local_buffer.len,
                           chem_potential |-> ZeroF32,
                           density |-> Top.local_buffer.bytes])
    /\ Advance
    /\ UNCHANGED <<context, pairs, ret, panic, chan>>
    /\ UNCHANGED wgpuVars

run ==
    \/ run_println_config
    \/ run_WgpuContext_new
    \/ run_calc_k_grid
    \/ run_calc_initial_eigen
    \/ run_get_charge_density
    \/ run_density
    \/ run_println
    \/ ReturnUnit("run", RunCode)

-----------------------------------------------------------------------------
(* main, main.rs:1-9 (not wasm32) *)

MainCode == <<"env_logger", "block_on">>

\* lines 4-7: the logger is set up
main_env_logger ==
    /\ Stmt("main", MainCode, "env_logger")
    /\ Advance
    /\ UNCHANGED <<context, pairs, ret, panic, out, chan>>
    /\ UNCHANGED wgpuVars

\* line 8: pollster::block_on(wgpu_hartree_fock::run())
main_block_on ==
    /\ Stmt("main", MainCode, "block_on")
    /\ Call(Frame("run", "-"))
    /\ UNCHANGED <<context, pairs, ret, panic, out, chan>>
    /\ UNCHANGED wgpuVars

main == main_env_logger \/ main_block_on

-----------------------------------------------------------------------------
(* SpecRepeat: the context is built and the k-grid and eigensolver stages run *)
(* once, as in run(); then get_charge_density is called again and again with *)
(* one chemical potential.                                                   *)

\* how many times the density stage is run at most
MaxRuns == 3

\* the chemical potentials tried: the bytes of 0.0f32 and of 1.0f32
ChemInputs == {ZeroF32, <<0, 0, 128, 63>>}

RepeatCode ==
    <<"WgpuContext_new", "calc_k_grid", "calc_initial_eigen", "get_charge_density", "again">>

\* the density stages that have returned to the repeating caller
RunsDone(f) == IF Len(f.rets) <= 3 THEN 0 ELSE Len(f.rets) - 3

repeat_WgpuContext_new ==
    /\ Stmt("repeat", RepeatCode, "WgpuContext_new")
    /\ Call(Frame("WgpuContext_new", "-"))
    /\ UNCHANGED <<context, pairs, ret, panic, out, chan>>
    /\ UNCHANGED wgpuVars

repeat_calc_k_grid ==
    /\ Stmt("repeat", RepeatCode, "calc_k_grid")
    /\ Call(Frame("calc_k_grid", "-"))
    /\ UNCHANGED <<context, pairs, ret, panic, out, chan>>
    /\ UNCHANGED wgpuVars

repeat_calc_initial_eigen ==
    /\ Stmt("repeat", RepeatCode, "calc_initial_eigen")
    /\ Call(Frame("calc_initial_eigen", "-"))
    /\ UNCHANGED <<context, pairs, ret, panic, out, chan>>
    /\ UNCHANGED wgpuVars

\* get_charge_density(&context, chem_potential), the same value every time
repeat_get_charge_density ==
    /\ Stmt("repeat", RepeatCode, "get_charge_density")
    /\ Call([Frame("get_charge_density", "-") EXCEPT !.data = Top.data])
    /\ UNCHANGED <<context, pairs, ret, panic, out, chan>>
    /\ UNCHANGED wgpuVars

\* run the density stage once more, or stop
repeat_again ==
    /\ Stmt("repeat", RepeatCode, "again")
    /\ \/ /\ RunsDone(Top) < MaxRuns
          /\ stack' = [stack EXCEPT ![Len(stack)].at = @ - 1]
       \/ Advance
    /\ UNCHANGED <<context, pairs, ret, panic, out, chan>>
    /\ UNCHANGED wgpuVars

repeat ==
    \/ repeat_WgpuContext_new
    \/ repeat_calc_k_grid
    \/ repeat_calc_initial_eigen
    \/ repeat_get_charge_density
    \/ repeat_again

InitRepeat ==
    /\ InitWgpu
    /\ \E c \in ChemInputs :
         stack = << [Frame("repeat", "-") EXCEPT !.data = [len |-> 1, bytes |-> c]] >>

-----------------------------------------------------------------------------
(* The device, as the host drives it *)

\* the statements of function fn
CodeOf(fn) ==
    CASE fn = "main" -> MainCode
      [] fn = "run" -> RunCode
      [] fn = "WgpuContext_new" -> ContextNewCode
      [] fn = "new" -> NewCode
      [] fn = "calc_k_grid" -> CalcKGridCode
      [] fn = "calc_initial_eigen" -> CalcInitialEigenCode
      [] fn = "get_charge_density" -> GetChargeDensityCode
      [] fn = "copy_to_staging_buffer" -> CopyToStagingCode
      [] fn = "set_uniform_buffer" -> SetUniformCode
      [] fn = "read_staging_buffer" -> ReadStagingCode
      [] fn = "caller" -> CallerCode
      [] fn = "repeat" -> RepeatCode

\* the statement the host is at, "-" past the end of a function
HostAt ==
    IF stack # <<>> /\ Top.at <= Len(CodeOf(Top.fn)) THEN CodeOf(Top.fn)[Top.at] ELSE "-"

\* the host is inside device.poll(Maintain::Wait)
HostPolling == HostAt = "poll"

\* the callback of a map_async request: `sender.send(r).unwrap()`
\* (buff_utils.rs:101-103, 128-130).  wgpu runs it inside device.poll, on the
\* polling thread, once no unfinished submission uses the buffer; the driver
\* reports success or an error.
DeviceMapCallback ==
    /\ panic = "none"
    /\ HostPolling
    /\ \E rq \in mapreq :
         /\ rq.b \notin InFlight
         /\ \E r \in (IF rq.refused THEN {"Err"} ELSE {"Ok", "Err"}) :
              /\ mapreq' = mapreq \ {rq}
              /\ buf' = IF rq.refused THEN buf
                        ELSE [buf EXCEPT ![rq.b].map =
                                 IF r = "Ok" THEN "mapped" ELSE "unmapped"]
              /\ IF chan.live /\ Len(chan.slot) < 1
                 THEN chan' = [chan EXCEPT !.slot = Append(@, r)] /\ UNCHANGED panic
                 ELSE panic' = "send on a closed or full channel" /\ UNCHANGED chan
    /\ UNCHANGED <<stack, context, pairs, encoder, queue, ret, written, executed, submits, out>>

Device == DeviceExec \/ DeviceMapCallback

NextPair == Caller \/ BufferInfoMethods \/ Device

SpecPair == InitPair /\ [][NextPair]_vars

Init ==
    /\ InitWgpu
    /\ stack = << Frame("main", "-") >>

Next ==
    \/ main
    \/ run
    \/ WgpuContext_new
    \/ calc_k_grid
    \/ calc_initial_eigen
    \/ get_charge_density
    \/ BufferInfoMethods
    \/ Device

Spec == Init /\ [][Next]_vars

\* the steps of the host thread
HostNext ==
    \/ main
    \/ run
    \/ WgpuContext_new
    \/ calc_k_grid
    \/ calc_initial_eigen
    \/ get_charge_density
    \/ BufferInfoMethods

\* Spec with its scheduling: the host thread keeps running (block_on drives
\* run() to its end), the device finishes what is submitted to it, and a
\* mapping callback that is ready is run by the poll the host is blocked in
SpecLive ==
    /\ Init
    /\ [][Next]_vars
    /\ WF_vars(HostNext)
    /\ WF_vars(DeviceExec)
    /\ WF_vars(DeviceMapCallback)

-----------------------------------------------------------------------------
(* SpecAll: the BufferInfo methods under either caller, run() or the caller *)
(* of SpecPair.                                                              *)

InitAll == Init \/ InitPair

NextAll ==
    \/ main
    \/ run
    \/ WgpuContext_new
    \/ calc_k_grid
    \/ calc_initial_eigen
    \/ get_charge_density
    \/ Caller
    \/ BufferInfoMethods
    \/ Device

SpecAll == InitAll /\ [][NextAll]_vars

NextRepeat ==
    \/ repeat
    \/ WgpuContext_new
    \/ calc_k_grid
    \/ calc_initial_eigen
    \/ get_charge_density
    \/ BufferInfoMethods
    \/ Device

SpecRepeat == InitRepeat /\ [][NextRepeat]_vars

-----------------------------------------------------------------------------
(* Properties *)

\* the frames of function fn on the stack
FramesOf(fn) == { stack[i] : i \in { j \in 1..Len(stack) : stack[j].fn = fn } }

\* the caller of SpecPair has run its last statement
CallerDone == Top.fn = "caller" /\ Top.at > Len(CallerCode)

\* what the caller's calls returned: new, new, set_uniform_buffer,
\* copy_to_staging_buffer, read_staging_buffer
CallerWrote(f) == Len(f.rets) >= 3 /\ f.rets[3].tag = "Ok"
CallerRead(f) == Len(f.rets) >= 5 /\ f.rets[5].tag = "Ok"

\* C1: a pair built with usage STORAGE has a shader buffer of usage exactly
\* STORAGE | COPY_SRC and a staging buffer of usage exactly COPY_DST | MAP_READ;
\* a pair built with usage UNIFORM has a shader buffer of usage exactly
\* UNIFORM | COPY_DST and a staging buffer of usage exactly COPY_SRC | MAP_WRITE.
\* So a storage pair's shader buffer is never UNIFORM and its staging buffer
\* never MAP_WRITE, a uniform pair's shader buffer never STORAGE and its
\* staging buffer never MAP_READ.
C1_DerivedUsages ==
    \A p \in DOMAIN pairs :
        /\ pairs[p].usage = {STORAGE} =>
              /\ buf[ShaderBuffer(p)].usage = {STORAGE, COPY_SRC}
              /\ buf[StagingBuffer(p)].usage = {COPY_DST, MAP_READ}
              /\ UNIFORM \notin buf[ShaderBuffer(p)].usage
              /\ MAP_WRITE \notin buf[StagingBuffer(p)].usage
        /\ pairs[p].usage = {UNIFORM} =>
              /\ buf[ShaderBuffer(p)].usage = {UNIFORM, COPY_DST}
              /\ buf[StagingBuffer(p)].usage = {COPY_SRC, MAP_WRITE}
              /\ STORAGE \notin buf[ShaderBuffer(p)].usage
              /\ MAP_READ \notin buf[StagingBuffer(p)].usage

\* both kinds of pair have been built
C1_Witness ==
    /\ DOMAIN pairs = PairNames
    /\ pairs["pair_a"].usage = {UNIFORM}
    /\ pairs["pair_b"].usage = {STORAGE}

\* C2: BufferInfo::new produces a pair only for a usage argument that is
\* exactly STORAGE or exactly UNIFORM; for every other flag set (both at once,
\* or either with further flags) no buffer is created and no pair returned.
C2_OnlyExactUsageConstructs ==
    /\ \A p \in DOMAIN pairs : pairs[p].usage \in {{STORAGE}, {UNIFORM}}
    /\ \A f \in FramesOf("new") :
          f.usage \notin {{STORAGE}, {UNIFORM}} =>
             /\ ShaderBuffer(f.self) \notin DOMAIN buf
             /\ StagingBuffer(f.self) \notin DOMAIN buf

\* C3: when BufferInfo::new panics on its usage argument, neither buffer of
\* that pair has been created; and a buffer of a pair is only ever created for
\* a usage argument the check of lines 25-33 has let through.
C3_NoPartialAllocation ==
    /\ \A f \in FramesOf("new") :
          /\ panic = "Invalid buffer usage" =>
                /\ ShaderBuffer(f.self) \notin DOMAIN buf
                /\ StagingBuffer(f.self) \notin DOMAIN buf
          /\ ~UsageAccepted(f.usage) =>
                /\ ShaderBuffer(f.self) \notin DOMAIN buf
                /\ StagingBuffer(f.self) \notin DOMAIN buf
    /\ panic = "Invalid buffer usage" => FramesOf("new") # {}

\* the second construction has aborted, after the first pair was built
C3_Witness ==
    /\ panic = "Invalid buffer usage"
    /\ Top.fn = "new"
    /\ Top.self = "pair_b"
    /\ "pair_a" \in DOMAIN pairs
    /\ ShaderBuffer("pair_b") \notin DOMAIN buf

\* the data argument of the running set_uniform_buffer has another byte length
\* than NUM_T * size_of::<T>()
Mismatched ==
    /\ Top.fn = "set_uniform_buffer"
    /\ BuffSize(Top.data.len, Top.sizeT) # BuffSize(Top.numT, Top.sizeT)

\* C4: while set_uniform_buffer runs with data of another byte length than
\* NUM_T * size_of::<T>(), no step changes the bytes of the staging buffer or
\* records a command; the call never returns Ok; and once the mapping has
\* succeeded it panics at copy_from_slice with the length mismatch.
C4_MismatchCopiesNothing ==
    [][ (panic = "none" /\ Mismatched) =>
          /\ buf'[StagingBuffer(Top.self)].bytes = buf[StagingBuffer(Top.self)].bytes
          /\ encoder' = encoder
          /\ Len(stack') < Len(stack) => ret'.tag = "Err"
          /\ SetUniformCode[Top.at] = "copy_from_slice" =>
                panic' = "source slice length does not match destination slice length"
      ]_vars

\* the mapping succeeded and the call died on the length mismatch
C4_Witness ==
    /\ Mismatched
    /\ panic = "source slice length does not match destination slice length"
    /\ buf[StagingBuffer(Top.self)].map = "mapped"
    /\ Top.data.len = Top.numT + 1

\* C5: a read_staging_buffer that returns Ok returns a vector of exactly NUM_T
\* elements; the density array run() gets, and the number of points it
\* prints, is 512 * 512 = 262144.
C5_ReadReturnsNumT ==
    /\ [][ (Top.fn = "read_staging_buffer" /\ Len(stack') < Len(stack)
              /\ ret'.tag = "Ok")
           => ret'.vec.len = pairs[Top.self].numT ]_vars
    /\ [](\A f \in FramesOf("get_charge_density") :
             (Len(f.rets) >= 3 /\ f.rets[3].tag = "Ok") => f.rets[3].vec.len = 262144)
    /\ [](\A i \in 1..Len(out) : out[i].chem_potential # <<>> => out[i].points = 262144)

\* run() has printed the number of points of a density array it read
C5_Witness ==
    /\ \E i \in 1..Len(out) : out[i].chem_potential # <<>> /\ out[i].points = GridPoints
    /\ ret.tag = "Ok"
    /\ ret.vec.len = GridPoints

\* C6: when the caller's set_uniform_buffer and read_staging_buffer both
\* returned Ok, with the copies submitted and the mirror copy between them, the
\* vector read has the length and the bytes of the data written.
C6_RoundTrip ==
    \A f \in FramesOf("caller") :
        (CallerWrote(f) /\ CallerRead(f)) => f.rets[5].vec = f.data

\* a round trip of one element of four bytes, not all equal
C6_Witness ==
    /\ CallerDone
    /\ CallerWrote(Top)
    /\ CallerRead(Top)
    /\ Top.rets[5].vec.bytes = <<1, 0, 1, 0>>
    /\ pairs[Top.self.w].usage = {UNIFORM}
    /\ pairs[Top.self.r].usage = {STORAGE}

\* the running frame is a method that has asked for a mapping
InMapMethod == Top.fn \in {"set_uniform_buffer", "read_staging_buffer"}

MethodCode(fn) == IF fn = "set_uniform_buffer" THEN SetUniformCode ELSE ReadStagingCode

\* C7: when the callback reports an error, the method returns Err at its recv
\* statement: that step changes no buffer and records no command, and the value
\* returned carries no elements; and a method only ever reaches its
\* get_mapped_range with the staging buffer mapped.
C7_MapFailedReturnsErr ==
    /\ [][ (panic = "none" /\ InMapMethod /\ Top.at <= Len(MethodCode(Top.fn))
              /\ MethodCode(Top.fn)[Top.at] = "recv"
              /\ chan.slot # <<>> /\ Head(chan.slot) = "Err" /\ stack' # stack)
           => /\ Len(stack') = Len(stack) - 1
              /\ ret' = RetErr
              /\ buf' = buf
              /\ encoder' = encoder ]_vars
    /\ []((InMapMethod /\ Top.at <= Len(MethodCode(Top.fn)) /\ panic = "none"
              /\ MethodCode(Top.fn)[Top.at] = "copy_from_slice")
             => buf[StagingBuffer(Top.self)].map = "mapped")

\* both methods have returned Err to the caller, the first on a pair whose
\* staging buffer the driver failed to map
C7_Witness ==
    /\ CallerDone
    /\ Top.rets[3].tag = "Err"
    /\ Top.rets[5].tag = "Err"
    /\ pairs[Top.self.w].usage = {UNIFORM}
    /\ pairs[Top.self.r].usage = {STORAGE}
    /\ encoder.cmds = <<>>

\* run() has not printed a density
NoDensityPrinted == \A i \in 1..Len(out) : out[i].chem_potential = <<>>

\* C8: in get_charge_density, once set_uniform_buffer has returned Err the
\* function stays at its unwrap (where it panics): no dispatch is recorded,
\* nothing is submitted in this stage and the density kernel never runs; once
\* read_staging_buffer has returned Err it stays at the second unwrap and
\* returns no density array.  In both cases no density is printed and no
\* further mapping is asked for.
C8_MapFailureEndsRun ==
    \A i \in 1..Len(stack) :
        stack[i].fn = "get_charge_density" =>
            LET f == stack[i] IN
            /\ (Len(f.rets) >= 1 /\ f.rets[1].tag = "Err") =>
                  /\ i = Len(stack)
                  /\ Len(f.rets) = 1
                  /\ GetChargeDensityCode[f.at] = "unwrap"
                  /\ encoder.cmds = <<>>
                  /\ queue = <<>>
                  /\ submits = 2
                  /\ "calc_charge_density_pipeline" \notin { executed[j] : j \in 1..Len(executed) }
                  /\ mapreq = {}
                  /\ NoDensityPrinted
            /\ (Len(f.rets) >= 3 /\ f.rets[3].tag = "Err") =>
                  /\ i = Len(stack)
                  /\ Len(f.rets) = 3
                  /\ GetChargeDensityCode[f.at] = "unwrap"
                  /\ mapreq = {}
                  /\ NoDensityPrinted

\* the run has died on the Err read_staging_buffer returned
C8_Witness ==
    /\ panic = "called Result::unwrap() on an Err value"
    /\ Top.fn = "get_charge_density"
    /\ Len(Top.rets) = 3
    /\ Top.rets[3].tag = "Err"
    /\ NoDensityPrinted

StageOrder ==
    <<"k_grid_pipeline", "initial_eigen_pipeline", "calc_charge_density_pipeline">>

IsPrefix(s, t) == Len(s) <= Len(t) /\ \A i \in 1..Len(s) : s[i] = t[i]

\* the stages run() has seen return: 0 Uninitialized, 1 GridReady,
\* 2 EigenReady, 3 DensityComputed (the first value returned to run() is
\* WgpuContext::new's)
StagesReturned(f) == IF Len(f.rets) = 0 THEN 0 ELSE Len(f.rets) - 1

\* C9: the device finishes the three kernels in the order k-grid, eigensolver,
\* density; when a stage function has returned to run() its kernel is
\* finished, and no kernel of a later stage has run before that stage is
\* called; a command buffer is submitted only while no earlier submission is
\* unfinished, so at most one is ever executing.
C9_StagesInOrderNoOverlap ==
    /\ [](/\ IsPrefix(executed, StageOrder)
          /\ Len(queue) <= 1
          /\ \A f \in FramesOf("run") :
                /\ StagesReturned(f) <= Len(executed)
                /\ Len(executed) <= StagesReturned(f) + 1
                /\ StagesReturned(f) <= 3)
    /\ [][submits' # submits => queue = <<>>]_vars

\* run() is at its end, the three kernels finished in order and the density printed
C9_Witness ==
    /\ executed = StageOrder
    /\ submits = 3
    /\ \E f \in FramesOf("run") : StagesReturned(f) = 3 /\ RunCode[f.at] = "return"
    /\ ~NoDensityPrinted

\* C10: whenever the device is about to run a kernel, every buffer the kernel
\* reads exists and has been fully written (by create_buffer_init, by a
\* finished kernel or by a finished copy of host-written bytes); and the step
\* that runs a kernel changes no buffer but the ones the kernel writes.
C10_KernelReadWriteDiscipline ==
    /\ [](queue # <<>> /\ Head(Head(queue)).op = "dispatch" =>
             /\ KernelReads(Head(Head(queue)).pipeline) \subseteq DOMAIN buf
             /\ KernelReads(Head(Head(queue)).pipeline) \subseteq written)
    /\ [][executed' # executed =>
             \A b \in DOMAIN buf :
                 buf'[b] # buf[b] => b \in KernelWrites(executed'[Len(executed')])]_vars

\* the density kernel is about to run on the chemical potential the host wrote
C10_Witness ==
    /\ queue # <<>>
    /\ Head(Head(queue)).op = "dispatch"
    /\ Head(Head(queue)).pipeline = "calc_charge_density_pipeline"
    /\ buf[ShaderBuffer("chem_potential_guess")].bytes = ZeroF32
    /\ ShaderBuffer("energy_eigen") \in written

\* the command buffer of the density stage
DensityCommands ==
    << CopyCmd(StagingBuffer("chem_potential_guess"), ShaderBuffer("chem_potential_guess"),
               SizeOfF32),
       DispatchCmd("calc_charge_density_pipeline", <<32, 32, 1>>),
       CopyCmd(ShaderBuffer("charge_density"), StagingBuffer("charge_density"),
               GridPoints * SizeOfF32) >>

\* C11: get_charge_density records one command buffer and submits it once: the
\* submission it makes is, in this order, the staging-to-shader copy of the
\* chemical potential, the density dispatch and the shader-to-staging copy of
\* the charge density; the stage makes the third submission of the run and no
\* other; and when the density kernel is about to run, the chemical-potential
\* shader buffer holds the value written in this stage.
C11_DensityOneSubmissionInOrder ==
    /\ [][(submits' # submits /\ Top.fn = "get_charge_density")
            => (queue = <<>> /\ queue' = <<DensityCommands>> /\ submits' = 3)]_vars
    /\ [](\A f \in FramesOf("get_charge_density") :
             /\ submits \in {2, 3}
             /\ IsPrefix(encoder.cmds, DensityCommands)
             /\ submits = 3 => encoder.cmds = <<>>)
    /\ [](\A f \in FramesOf("run") : StagesReturned(f) = 3 => submits = 3)
    /\ []((queue # <<>> /\ Head(Head(queue)).op = "dispatch"
             /\ Head(Head(queue)).pipeline = "calc_charge_density_pipeline")
            => /\ buf[ShaderBuffer("chem_potential_guess")].bytes = ZeroF32
               /\ buf[StagingBuffer("chem_potential_guess")].bytes = ZeroF32
               /\ ShaderBuffer("chem_potential_guess") \in written)

\* the density stage has just submitted its command buffer
C11_Witness ==
    /\ queue = <<DensityCommands>>
    /\ submits = 3
    /\ Top.fn = "get_charge_density"

\* a map_async request on the charge-density staging buffer is issued in this step
DensityMapRequested ==
    \E rq \in mapreq' \ mapreq : rq.b = StagingBuffer("charge_density")

\* C12 (as stated): the read mapping of the charge-density staging buffer is
\* asked for only when the density command buffer has been submitted and the
\* device has finished it, the host having waited before read_staging_buffer.
C12_MapRequestAfterCopyDone ==
    [][DensityMapRequested => (submits = 3 /\ queue = <<>>)]_vars

\* C12 (amended): the read mapping is asked for only after the density command
\* buffer has been submitted, the copy possibly still unfinished; the staging
\* buffer becomes mapped, and read_staging_buffer gets past its poll, only when
\* the device has finished the kernel and the copy.
C12_MapCompletesAfterCopyDone ==
    /\ [][DensityMapRequested => submits = 3]_vars
    /\ [](StagingBuffer("charge_density") \in DOMAIN buf =>
            (buf[StagingBuffer("charge_density")].map = "mapped" =>
               /\ queue = <<>>
               /\ executed = StageOrder
               /\ StagingBuffer("charge_density") \in written))
    /\ []((Top.fn = "read_staging_buffer" /\ Top.self = "charge_density"
             /\ HostAt \in {"recv", "copy_from_slice", "unmap", "Ok"})
            => (queue = <<>> /\ executed = StageOrder))

\* the mapping has been asked for while the device has not finished the copy
C12_Witness ==
    /\ \E rq \in mapreq : rq.b = StagingBuffer("charge_density") /\ ~rq.refused
    /\ queue # <<>>
    /\ Top.fn = "read_staging_buffer"
    /\ HostAt = "poll"

\* panics that come from using wgpu or the channel outside their rules
MisusePanics ==
    {"wgpu validation error: submit", "wgpu validation error: copy_buffer_to_buffer",
     "get_mapped_range: buffer is not mapped", "get_mapped_range_mut: buffer is not mapped",
     "send on a closed or full channel",
     "source slice length does not match destination slice length"}

\* C13: with the k-grid and eigensolver stages run once, every call of
\* get_charge_density with the same chemical potential returns the same array
\* of 512 * 512 elements; each call starts with both staging buffers it uses
\* unmapped, no mapping request outstanding, nothing queued and no encoder
\* open; and no call breaks a rule of wgpu or of the channel.
C13_DensityRepeatable ==
    /\ panic \notin MisusePanics
    /\ \A f \in FramesOf("repeat") :
          /\ \A i \in 4..Len(f.rets) :
                /\ f.rets[i] = f.rets[4]
                /\ f.rets[i].tag = "Ok"
                /\ f.rets[i].vec.len = GridPoints
          /\ (Top = f /\ HostAt = "get_charge_density") =>
                /\ buf[StagingBuffer("chem_potential_guess")].map = "unmapped"
                /\ buf[StagingBuffer("charge_density")].map = "unmapped"
                /\ mapreq = {}
                /\ queue = <<>>
                /\ ~encoder.live
                /\ chan = NoChan

\* the density stage has returned MaxRuns times for the chemical potential 1.0
C13_Witness ==
    /\ Top.fn = "repeat"
    /\ RunsDone(Top) = MaxRuns
    /\ Top.data.bytes = <<0, 0, 128, 63>>
    /\ Top.rets[4].vec.bytes # <<>>
    /\ submits = 2 + MaxRuns

\* the mapping requests outstanding on the staging buffer of pair p
RequestsOn(p) == { rq \in mapreq : rq.b = StagingBuffer(p) }

\* C14: in a run of run(), the staging buffer of every pair has at most one
\* mapping request outstanding, so never a read and a write request together;
\* every request is on the staging buffer of a pair, and a staging buffer is
\* being mapped exactly while its request is outstanding.
C14_OneMapRequestPerPair ==
    /\ \A p \in DOMAIN pairs :
          /\ Cardinality(RequestsOn(p)) <= 1
          /\ ~(\E r1, r2 \in RequestsOn(p) : r1.mode = "Read" /\ r2.mode = "Write")
          /\ (buf[StagingBuffer(p)].map = "pending") <=> (RequestsOn(p) # {})
    /\ \A rq \in mapreq : \E p \in DOMAIN pairs : rq.b = StagingBuffer(p)

\* the one request of the run that asks for a read mapping is outstanding
C14_Witness ==
    /\ RequestsOn("charge_density") =
          {[b |-> StagingBuffer("charge_density"), mode |-> "Read", refused |-> FALSE]}
    /\ RequestsOn("chem_potential_guess") = {}
    /\ buf[StagingBuffer("charge_density")].map = "pending"

\* the driver failed: no adapter or device, or a mapping it reported as failed
DriverFailed ==
    panic \in {"called Option::unwrap() on a None value",
               "called Result::unwrap() on an Err value"}

\* get_charge_density has returned to run(): DensityComputed
DensityComputed == \E f \in FramesOf("run") : StagesReturned(f) = 3

\* C15: with the host running and the device finishing submissions and
\* delivering callbacks to the poll, every set_uniform_buffer and
\* read_staging_buffer call returns, and the run reaches DensityComputed unless
\* the driver reports a failure; and whenever the host is at the receive of
\* either method, the result is already in the channel and no request is
\* outstanding.
C15_BridgeLiveness ==
    /\ InMapMethod ~> ~InMapMethod
    /\ <>(DensityComputed \/ DriverFailed)
    /\ []((InMapMethod /\ HostAt = "recv") => (Len(chan.slot) = 1 /\ mapreq = {}))

\* the host is at the receive of read_staging_buffer, the result delivered
C15_Witness ==
    /\ Top.fn = "read_staging_buffer"
    /\ HostAt = "recv"
    /\ chan.slot = <<"Ok">>
    /\ queue = <<>>

\* the binding type a buffer created with `usage` can be bound as
BindableAs(ty, usage) ==
    \/ ty = "Storage" /\ STORAGE \in usage
    \/ ty = "Uniform" /\ UNIFORM \in usage

\* every dispatch recorded or submitted
Dispatches ==
    { encoder.cmds[i] : i \in { j \in 1..Len(encoder.cmds) : encoder.cmds[j].op = "dispatch" } }
    \cup UNION { { queue[k][i] : i \in { j \in 1..Len(queue[k]) : queue[k][j].op = "dispatch" } }
                 : k \in 1..Len(queue) }

\* C16: once built, the bind group layout has six entries, at the slots 0..5 in
\* this order, of types uniform, storage, storage, storage, uniform, storage;
\* the bind group has six entries at the same slots, slot 0 the system-info
\* buffer and the others the shader buffers of k_values, hamiltonian,
\* energy_eigen, chem_potential_guess and charge_density; each pair's layout
\* entry and bind group entry carry the pair's slot, and the layout type is one
\* the bound buffer was created for; the three pipelines are created with the
\* one layout, every dispatch binds the one bind group, and neither is changed
\* once built.
C16_OneSharedBindingLayout ==
    /\ [](context.bind_group_layout # <<>> =>
            /\ Len(context.bind_group_layout) = 6
            /\ \A i \in 1..6 : context.bind_group_layout[i].binding = i - 1
            /\ [i \in 1..6 |-> context.bind_group_layout[i].ty] =
                  <<"Uniform", "Storage", "Storage", "Storage", "Uniform", "Storage">>
            /\ \A p \in DOMAIN pairs :
                  /\ get_bind_group_layout_entry(p).binding = get_bind_group_entry(p).binding
                  /\ get_bind_group_layout_entry(p) =
                        context.bind_group_layout[pairs[p].binding + 1])
    /\ [](context.bind_group # <<>> =>
            /\ [i \in 1..6 |-> context.bind_group[i].binding] = <<0, 1, 2, 3, 4, 5>>
            /\ [i \in 1..6 |-> context.bind_group[i].resource] =
                  <<SystemInfoBuffer, ShaderBuffer("k_values"), ShaderBuffer("hamiltonian"),
                    ShaderBuffer("energy_eigen"), ShaderBuffer("chem_potential_guess"),
                    ShaderBuffer("charge_density")>>
            /\ \A i \in 1..6 :
                  BindableAs(context.bind_group_layout[i].ty,
                             buf[context.bind_group[i].resource].usage))
    /\ [](\A pl \in context.pipelines : pl.layout = <<context.bind_group_layout>>)
    /\ [](\A c \in Dispatches :
             /\ c.bind_group = context.bind_group
             /\ Len(c.bind_group) = 6
             /\ \E pl \in context.pipelines : pl.name = c.pipeline)
    /\ [][(context.bind_group_layout # <<>>
             => context'.bind_group_layout = context.bind_group_layout)
          /\ (context.bind_group # <<>> => context'.bind_group = context.bind_group)]_vars

\* the three pipelines exist and the density kernel is recorded with the bind group
C16_Witness ==
    /\ { pl.name : pl \in context.pipelines } =
          {"k_grid_pipeline", "initial_eigen_pipeline", "calc_charge_density_pipeline"}
    /\ \E c \in Dispatches : c.pipeline = "calc_charge_density_pipeline"
    /\ Len(context.bind_group) = 6

\* every copy recorded or submitted
Copies ==
    { encoder.cmds[i] : i \in { j \in 1..Len(encoder.cmds) : encoder.cmds[j].op = "copy" } }
    \cup UNION { { queue[k][i] : i \in { j \in 1..Len(queue[k]) : queue[k][j].op = "copy" } }
                 : k \in 1..Len(queue) }

\* the buffers kernels are bound to: the system-info buffer and the shader buffers
DeviceBuffers == {SystemInfoBuffer} \cup { ShaderBuffer(p) : p \in DOMAIN pairs }

\* C17: from its creation on, the system-info buffer holds the bytes of
\* SYSTEM_INFO, is a uniform buffer only (no copy can target it, it cannot be
\* mapped) and no step changes it; the only copy the host ever records into a
\* device buffer targets the chem_potential_guess shader buffer, and any other
\* change of a device buffer is a kernel writing one of its outputs.
C17_SystemInfoImmutable ==
    /\ [](SystemInfoBuffer \in DOMAIN buf =>
            /\ buf[SystemInfoBuffer] =
                  [size |-> SizeOfSystemInfo, usage |-> {UNIFORM},
                   bytes |-> SYSTEM_INFO, map |-> "unmapped"]
            /\ SystemInfoBuffer \in written)
    /\ [][(SystemInfoBuffer \in DOMAIN buf)
             => (buf'[SystemInfoBuffer] = buf[SystemInfoBuffer])]_vars
    /\ [](\A c \in Copies :
             c.dst \in DeviceBuffers => c.dst = ShaderBuffer("chem_potential_guess"))
    /\ [](\A rq \in mapreq : rq.b \notin DeviceBuffers)
    /\ [][\A b \in DeviceBuffers \cap DOMAIN buf :
             buf'[b] # buf[b] =>
                \/ b = ShaderBuffer("chem_potential_guess") /\ executed' = executed
                \/ executed' # executed /\ b \in KernelWrites(executed'[Len(executed')])]_vars

\* the density stage is over and the system-info buffer is as it was created
C17_Witness ==
    /\ executed = StageOrder
    /\ queue = <<>>
    /\ buf[SystemInfoBuffer].bytes = SYSTEM_INFO
    /\ buf[ShaderBuffer("chem_potential_guess")].bytes = ZeroF32
    /\ ShaderBuffer("chem_potential_guess") \in written

\* the staging buffers of the pairs built so far
StagingBuffers == { StagingBuffer(p) : p \in DOMAIN pairs }

AllStagingUnmapped == \A b \in StagingBuffers : buf[b].map = "unmapped"

\* the running method returns Ok in this step
MapMethodReturnsOk ==
    /\ InMapMethod
    /\ Len(stack') = Len(stack) - 1
    /\ ret'.tag = "Ok"

\* a copy that names a staging buffer is appended to the encoder in this step
StagingCopyAppended ==
    /\ Len(encoder'.cmds) = Len(encoder.cmds) + 1
    /\ encoder'.cmds[Len(encoder'.cmds)].op = "copy"
    /\ {encoder'.cmds[Len(encoder'.cmds)].src, encoder'.cmds[Len(encoder'.cmds)].dst}
          \cap StagingBuffers # {}

\* C18: a staging buffer is mapped only while set_uniform_buffer or
\* read_staging_buffer is running on its pair, from the callback (which runs in
\* the poll) to the unmap; a method returns Ok, a copy naming a staging buffer
\* is recorded and a command buffer is submitted only with every staging
\* buffer unmapped.
C18_MappedOnlyInsideMethods ==
    /\ [](\A p \in DOMAIN pairs :
             buf[StagingBuffer(p)].map = "mapped" =>
                /\ InMapMethod
                /\ Top.self = p
                /\ HostAt \in {"poll", "recv", "copy_from_slice", "unmap"})
    /\ [][MapMethodReturnsOk => AllStagingUnmapped']_vars
    /\ [][StagingCopyAppended => (AllStagingUnmapped /\ AllStagingUnmapped')]_vars
    /\ [][submits' # submits => (AllStagingUnmapped /\ AllStagingUnmapped')]_vars

\* read_staging_buffer is about to unmap the staging buffer it has read
C18_Witness ==
    /\ Top.fn = "read_staging_buffer"
    /\ HostAt = "unmap"
    /\ buf[StagingBuffer(Top.self)].map = "mapped"
    /\ Top.local_buffer.len = Top.numT

\* a map_async callback runs in this step
CallbackRuns == \E rq \in mapreq : mapreq' = mapreq \ {rq}

\* a map_async request is issued in this step
MapRequested == mapreq' # mapreq /\ mapreq \subseteq mapreq'

\* the running method takes the result out of the channel in this step
Received == InMapMethod /\ HostAt = "recv" /\ stack' # stack

\* C19: a request is issued only on a channel just created by the same call,
\* empty and with its receiver alive; the callback's send finds the slot empty
\* and the receiver alive, so it neither fails nor blocks, and puts one result
\* there; between map_async and the receive there is exactly one of: the
\* request outstanding, or its result in the slot; the receive takes that one
\* result and leaves the slot empty; outside the two methods no channel and no
\* request exists.
C19_OneShotChannel ==
    /\ [](panic # "send on a closed or full channel")
    /\ [](Len(chan.slot) <= 1)
    /\ [][MapRequested =>
             /\ HostAt = "map_async"
             /\ mapreq = {}
             /\ chan = [live |-> TRUE, slot |-> <<>>]
             /\ Cardinality(mapreq') = 1]_vars
    /\ [][CallbackRuns =>
             /\ chan = [live |-> TRUE, slot |-> <<>>]
             /\ chan'.live
             /\ Len(chan'.slot) = 1]_vars
    /\ []((InMapMethod /\ HostAt \in {"poll", "recv"} /\ panic = "none")
            => (chan.live /\ Cardinality(mapreq) + Len(chan.slot) = 1))
    /\ [][Received => (Len(chan.slot) = 1 /\ mapreq = {} /\ chan'.slot = <<>>)]_vars
    /\ [](~InMapMethod => (chan = NoChan /\ mapreq = {}))

\* the callback has sent its result and the host has not yet received it
C19_Witness ==
    /\ Top.fn = "set_uniform_buffer"
    /\ HostAt = "poll"
    /\ chan = [live |-> TRUE, slot |-> <<"Ok">>]
    /\ mapreq = {}

\* the threads a dispatch starts: workgroups times threads per workgroup
Threads(c) ==
    c.groups[1] * c.groups[2] * c.groups[3]
      * WorkgroupSize[1] * WorkgroupSize[2] * WorkgroupSize[3]

\* the pairs with one element per grid point: the storage pairs
GridPairs == { p \in DOMAIN pairs : STORAGE \in pairs[p].usage }

\* C20: every dispatch of the three stages is of 32 x 32 x 1 workgroups; with
\* workgroups of 64 x 4 x 1 threads that is 32 * 32 * 64 * 4 = 262144 threads,
\* which is 512 * 512 and the element count NUM_T of every storage pair.
C20_ThreadsCoverGrid ==
    /\ \A c \in Dispatches :
          /\ c.groups = <<32, 32, 1>>
          /\ Threads(c) = 262144
          /\ Threads(c) = 512 * 512
          /\ \A p \in GridPairs : pairs[p].numT = Threads(c)
    /\ \A p \in GridPairs : pairs[p].numT = GridPoints
    /\ \A p \in DOMAIN pairs : p \notin GridPairs => pairs[p].numT = 1

\* the four grid-sized pairs exist and the density dispatch is submitted
C20_Witness ==
    /\ GridPairs = {"k_values", "hamiltonian", "energy_eigen", "charge_density"}
    /\ executed = <<"k_grid_pipeline", "initial_eigen_pipeline">>
    /\ \E c \in Dispatches : c.pipeline = "calc_charge_density_pipeline" /\ Threads(c) = GridPoints
    /\ queue # <<>>

=============================================================================
